---- MODULE Spec2Model ----

(***************************************************************************)
(* WPlaceBot (v1.5.0): the task queue, the lock-aware colour resolution,   *)
(* the drawing loop and the localStorage checkpoint.                       *)
(*                                                                         *)
(* JavaScript runs one synchronous segment at a time: a call from the      *)
(* console, or the part of start() between two awaits.  Each segment is    *)
(* one action.  A loop of start() that is suspended in sleep() is a record *)
(* of loops[l] holding its position and the locals it captured.            *)
(*                                                                         *)
(* Strings: a "#..." colour string is [n |-> number of characters after    *)
(* the '#', v |-> their value read as a hexadecimal number] (letter case   *)
(* is carried unchanged by every operation and ignored by hexToRgb, so     *)
(* strings differing only in case are identified); an "rgb(...)" string is *)
(* the sequence of its digit groups, which is all match(/\d+/g) reads.     *)
(* The console warnings and the _xxxWarned flags that only guard them, and *)
(* the savedAt stamp that nothing reads, are left out.                     *)
(***************************************************************************)
EXTENDS Integers, Sequences, FiniteSets, TLC

VARIABLES
  isRunning,        \* this.isRunning
  delay,            \* this.delay
  currentPixel,     \* this.currentPixel
  pixels,           \* this.pixels : sequence of [x, y, color]
  startX, startY,   \* this.startX, this.startY
  canvas,           \* this.canvas located (TRUE) or null (FALSE)
  colorPalette,     \* this.colorPalette : sequence of [color, locked]
  selectedColor,    \* this.selectedColor
  useAutoPalette,   \* this.useAutoPalette
  lockedColorMode,  \* this.lockedColorMode
  cellW, cellH,     \* this.cellW, this.cellH : Null or <<n>>
  imageName,        \* this.imageName
  storage,          \* localStorage[this.stateKey]
  store,            \* "ok", or "rejects": setItem and removeItem throw
  loops,            \* the activations of start() suspended in sleep()
  placed,           \* clickCanvas calls since the queue was installed: <<x, y>>
  selects,          \* element.click() calls on swatches since the queue was installed
  lastCall          \* the last console call: its name, argument and return value,
                    \* or what the run observes

vars == <<isRunning, delay, currentPixel, pixels, startX, startY, canvas,
          colorPalette, selectedColor, useAutoPalette, lockedColorMode,
          cellW, cellH, imageName, storage, store, loops, placed, selects,
          lastCall>>

(***************************************************************************)
(* Bounds of the model.                                                    *)
(***************************************************************************)
MaxTasks == 3     \* longest queue of the undisturbed runs
MaxEngine == 2    \* longest queue a console load installs in the engine
MaxLoops == 2     \* activations of start() alive at once
MaxLen == 3       \* longest raw pixel list handed to loadImageFromData
MaxPal == 2       \* longest palette snapshot in the resolution runs
MaxStored == 5    \* longest queue in the persistence runs

(***************************************************************************)
(* Fields the constructor sets.  largeSaveCap and autosaveEvery are        *)
(* configurable fields; their defaults 50000 and 20 are scaled down so     *)
(* that queues longer than the cap and cursors past a multiple of          *)
(* autosaveEvery occur.                                                    *)
(***************************************************************************)
largeSaveCap == 3
autosaveEvery == 3
DefaultDelay == 600
DefaultName == "Custom Image"

Null == <<>>
Num(n) == <<n>>
IsNum(v) == v # Null

Min(a, b) == IF a <= b THEN a ELSE b

(***************************************************************************)
(* Colour helpers.                                                         *)
(***************************************************************************)
Hex6(v) == [n |-> 6, v |-> v]
Black == Hex6(0)
NaNHex == [n |-> 2, v |-> -1]     \* "#aN": "NaN".slice(1)

RECURSIVE HexLen(_)
HexLen(k) == IF k < 16 THEN 1 ELSE 1 + HexLen(k \div 16)

\* rgbToHex: m = the digit groups; r, g, b = the first three (undefined when
\* missing); '#' + ((1<<24)+(r<<16)+(g<<8)+b).toString(16).slice(1).
\* undefined << k is 0 but + undefined is NaN.  Channels stay below 2^13
\* in the model, where << does not wrap.
rgbToHex(m) ==
  IF Len(m) = 0 THEN Black
  ELSE IF Len(m) < 3 THEN NaNHex
  ELSE LET k == 16777216 + m[1] * 65536 + m[2] * 256 + m[3]
           d == HexLen(k)
       IN [n |-> d - 1, v |-> k % (16 ^ (d - 1))]

\* hexToRgb: /^#?([a-f\d]{2})([a-f\d]{2})([a-f\d]{2})$/i, null otherwise
hexToRgb(hex) ==
  IF hex.n = 6 /\ hex.v >= 0
  THEN Num([r |-> hex.v \div 65536, g |-> (hex.v \div 256) % 256, b |-> hex.v % 256])
  ELSE Null

\* rgbStringToObject: the first three digit groups, null when fewer
rgbStringToObject(m) ==
  IF Len(m) < 3 THEN Null ELSE Num([r |-> m[1], g |-> m[2], b |-> m[3]])

\* _dist: Math.hypot of the channel differences.  Only compared with <, so
\* the square is kept (the square root is strictly monotone and separates
\* distinct integers of this size in double precision).
Dist2(a, b) ==
  (a.r - b.r) * (a.r - b.r) + (a.g - b.g) * (a.g - b.g) + (a.b - b.b) * (a.b - b.b)

(***************************************************************************)
(* loadImageFromData: validation and normalisation of one raw item.        *)
(* A raw coordinate is [t |-> "num", h |-> k] for the number k/2,          *)
(* [t |-> "nan"], [t |-> "inf"] or [t |-> "str"] (not of type number).     *)
(* A raw colour is [t |-> "hex", v, pad] ('#' and six hex digits, with     *)
(* surrounding white space when pad), [t |-> "rgb", m] (a string starting  *)
(* rgb( with digit groups m), [t |-> "other"] (any other string) or        *)
(* [t |-> "nostr"] (not a string).                                         *)
(***************************************************************************)
IsNumberType(c) == c.t \in {"num", "nan", "inf"}

\* Math.floor followed by the test x<0 || !Number.isFinite(x)
FloorOK(c) == c.t = "num" /\ (c.h \div 2) >= 0
Floor(c) == c.h \div 2

\* the colour branch: Null when the item is rejected
NormColor(c) ==
  CASE c.t = "hex" -> Num(Hex6(c.v))
    [] c.t = "rgb" ->
         LET rgb == rgbStringToObject(c.m)
         IN IF rgb = Null THEN Null
            ELSE Num(rgbToHex(<<rgb[1].r, rgb[1].g, rgb[1].b>>))
    [] OTHER -> Null

\* one pass of the for loop: Null when the item makes the call return false
NormItem(p) ==
  IF ~IsNumberType(p.x) \/ ~IsNumberType(p.y) \/ p.color.t = "nostr" THEN Null
  ELSE LET c == NormColor(p.color)
       IN IF c = Null THEN Null
          ELSE IF ~FloorOK(p.x) \/ ~FloorOK(p.y) THEN Null
          ELSE Num([x |-> Floor(p.x), y |-> Floor(p.y), color |-> c[1]])

\* norm: Null as soon as one item is rejected
RECURSIVE Normalize(_)
Normalize(data) ==
  IF data = <<>> THEN Num(<<>>)
  ELSE LET rest == Normalize(Tail(data))
           it == NormItem(Head(data))
       IN IF it = Null \/ rest = Null THEN Null
          ELSE Num(<<it[1]>> \o rest[1])

\* MapSet keeping the value a key had first
MapSetFirstWins(m, p) ==
  IF \E i \in 1..Len(m) : m[i].x = p.x /\ m[i].y = p.y THEN m ELSE Append(m, p)

\* new Map(); map.set(key, p): a known key keeps its place and takes the
\* new value, a new key goes to the end
RECURSIVE MapSet(_, _)
MapSet(m, p) ==
  IF m = <<>> THEN <<p>>
  ELSE IF Head(m).x = p.x /\ Head(m).y = p.y THEN <<p>> \o Tail(m)
  ELSE <<Head(m)>> \o MapSet(Tail(m), p)

RECURSIVE MapOf(_, _)
MapOf(m, norm) ==
  IF norm = <<>> THEN m ELSE MapOf(MapSet(m, Head(norm)), Tail(norm))

\* the comparator (a.y-b.y)||(a.x-b.x) is negative
Before(a, b) == a.y < b.y \/ (a.y = b.y /\ a.x < b.x)

\* Array.prototype.sort is stable: insertion after the last element not
\* ordered after p
RECURSIVE InsertSorted(_, _)
InsertSorted(s, p) ==
  IF s = <<>> THEN <<p>>
  ELSE IF Before(p, Head(s)) THEN <<p>> \o s
  ELSE <<Head(s)>> \o InsertSorted(Tail(s), p)

RECURSIVE SortTasks(_)
SortTasks(s) ==
  IF s = <<>> THEN <<>>
  ELSE InsertSorted(SortTasks(SubSeq(s, 1, Len(s) - 1)), s[Len(s)])

\* the values of the map in insertion order, without the sort
DedupUnsorted(norm) == MapOf(<<>>, norm)

Dedup(norm) == SortTasks(MapOf(<<>>, norm))

(***************************************************************************)
(* The instance and its surroundings as one record, so that a call which   *)
(* runs other calls (resume: loadState, then start) is their composition.  *)
(***************************************************************************)
This ==
  [isRunning |-> isRunning, delay |-> delay, currentPixel |-> currentPixel,
   pixels |-> pixels, startX |-> startX, startY |-> startY, canvas |-> canvas,
   colorPalette |-> colorPalette, selectedColor |-> selectedColor,
   useAutoPalette |-> useAutoPalette, lockedColorMode |-> lockedColorMode,
   cellW |-> cellW, cellH |-> cellH, imageName |-> imageName,
   storage |-> storage, store |-> store, loops |-> loops, placed |-> placed,
   selects |-> selects, lastCall |-> lastCall]

Becomes(s) ==
  /\ isRunning' = s.isRunning
  /\ delay' = s.delay
  /\ currentPixel' = s.currentPixel
  /\ pixels' = s.pixels
  /\ startX' = s.startX
  /\ startY' = s.startY
  /\ canvas' = s.canvas
  /\ colorPalette' = s.colorPalette
  /\ selectedColor' = s.selectedColor
  /\ useAutoPalette' = s.useAutoPalette
  /\ lockedColorMode' = s.lockedColorMode
  /\ cellW' = s.cellW
  /\ cellH' = s.cellH
  /\ imageName' = s.imageName
  /\ storage' = s.storage
  /\ store' = s.store
  /\ loops' = s.loops
  /\ placed' = s.placed
  /\ selects' = s.selects
  /\ lastCall' = s.lastCall

\* the step to instance s, computed once
Do(s) == \E t \in {s} : Becomes(t)

\* lastCall, placed and selects observe the instance and are read by no
\* operation.  A run chooses in its initial state what it observes:
\* nothing (Unwatched), the clicks on canvas and swatches (Events), or the
\* clicks and the console calls (Watched).
Unwatched == [op |-> "unwatched"]
Events == [op |-> "events"]
Watched == [op |-> "none"]

Called(s, op, arg, ret) ==
  IF s.lastCall.op \in {"unwatched", "events"} THEN s
  ELSE [s EXCEPT !.lastCall = [op |-> op, arg |-> arg, ret |-> ret]]

Logged(s, log, event) ==
  IF s.lastCall.op = "unwatched" THEN log ELSE Append(log, event)

(***************************************************************************)
(* Persistence.  The slot is [kind |-> "absent"], [kind |-> "empty"] (the   *)
(* empty string), [kind |-> "garbage"] (a string JSON.parse throws on),    *)
(* [kind |-> "null"] (the text null) or [kind |-> "text", json |-> record] *)
(* (the text of a JSON object, kept as the object it denotes: the values   *)
(* stored are integers, strings, null and arrays of {x, y, color}, which   *)
(* JSON.stringify and JSON.parse carry unchanged).  In the record a field  *)
(* that may be null or missing is Null or <<value>>.                       *)
(***************************************************************************)
Absent == [kind |-> "absent"]
EmptyText == [kind |-> "empty"]
Garbage == [kind |-> "garbage"]
NullText == [kind |-> "null"]

\* an element of the remaining array that is no object: null
NullTask == [null |-> TRUE]
Unusable(p) == "x" \notin DOMAIN p

JsonStringify(obj) == [kind |-> "text", json |-> obj]

\* Array.prototype.slice(from): a start at or past the end gives []
Slice(px, from) == IF from >= Len(px) THEN <<>> ELSE SubSeq(px, from + 1, Len(px))

\* StateObject slicing one past the cursor
StateObjectOffByOne(s) ==
  LET remaining == Slice(s.pixels, s.currentPixel + 1)
  IN [version |-> 1,
      imageName |-> s.imageName,
      startX |-> Num(s.startX), startY |-> Num(s.startY),
      delay |-> Num(s.delay),
      currentPixel |-> s.currentPixel,
      totalPixels |-> Len(s.pixels),
      isArray |-> TRUE,
      remaining |-> IF Len(remaining) > largeSaveCap
                    THEN SubSeq(remaining, 1, largeSaveCap)
                    ELSE remaining,
      cellW |-> s.cellW, cellH |-> s.cellH]

\* StateObject without the cap
StateObjectUncapped(s) ==
  [version |-> 1,
   imageName |-> s.imageName,
   startX |-> Num(s.startX), startY |-> Num(s.startY),
   delay |-> Num(s.delay),
   currentPixel |-> s.currentPixel,
   totalPixels |-> Len(s.pixels),
   isArray |-> TRUE,
   remaining |-> Slice(s.pixels, s.currentPixel),
   cellW |-> s.cellW, cellH |-> s.cellH]

\* StateObject with the cursor field written as 0
StateObjectCursorZero(s) ==
  [StateObjectUncapped(s) EXCEPT
     !.currentPixel = 0,
     !.remaining = IF Len(@) > largeSaveCap THEN SubSeq(@, 1, largeSaveCap) ELSE @]

\* the object saveState builds
StateObject(s) ==
  LET remaining == Slice(s.pixels, s.currentPixel)
  IN [version |-> 1,
      imageName |-> s.imageName,
      startX |-> Num(s.startX), startY |-> Num(s.startY),
      delay |-> Num(s.delay),
      currentPixel |-> s.currentPixel,
      totalPixels |-> Len(s.pixels),
      isArray |-> TRUE,
      remaining |-> IF Len(remaining) > largeSaveCap
                    THEN SubSeq(remaining, 1, largeSaveCap)
                    ELSE remaining,
      cellW |-> s.cellW, cellH |-> s.cellH]

\* saveState: try { setItem } catch { warn }
saveState(s) ==
  IF s.store = "rejects" THEN s
  ELSE [s EXCEPT !.storage = JsonStringify(StateObject(s))]

\* clearState: try { removeItem } catch {}
clearState(s) == IF s.store = "rejects" THEN s ELSE [s EXCEPT !.storage = Absent]

\* loadState: whether it returns true.  !raw holds of the absent and of the
\* empty slot, JSON.parse throws on garbage, !s holds of null.
loadStateOK(s) ==
  /\ s.storage.kind \notin {"absent", "empty", "garbage", "null"}
  /\ s.storage.json.version = 1
  /\ s.storage.json.isArray

\* loadState assigning before it has looked at version and remaining
loadStateUnchecked(s) ==
  IF s.storage.kind # "text" THEN s
  ELSE LET j == s.storage.json
       IN [s EXCEPT
             !.imageName = IF j.imageName = "" THEN DefaultName ELSE j.imageName,
             !.startX = IF IsNum(j.startX) THEN j.startX[1] ELSE s.startX,
             !.startY = IF IsNum(j.startY) THEN j.startY[1] ELSE s.startY,
             !.delay = IF IsNum(j.delay) THEN j.delay[1] ELSE s.delay,
             !.cellW = IF IsNum(j.cellW) THEN j.cellW ELSE s.cellW,
             !.cellH = IF IsNum(j.cellH) THEN j.cellH ELSE s.cellH,
             !.pixels = j.remaining,
             !.currentPixel = 0,
             !.placed = <<>>,
             !.selects = <<>>]

\* loadState that leaves the cell size of the new instance as it is
loadStateKeepsCells(s) ==
  IF ~loadStateOK(s) THEN s
  ELSE LET j == s.storage.json
       IN [s EXCEPT
             !.imageName = IF j.imageName = "" THEN DefaultName ELSE j.imageName,
             !.startX = IF IsNum(j.startX) THEN j.startX[1] ELSE s.startX,
             !.startY = IF IsNum(j.startY) THEN j.startY[1] ELSE s.startY,
             !.delay = IF IsNum(j.delay) THEN j.delay[1] ELSE s.delay,
             !.pixels = j.remaining,
             !.currentPixel = 0,
             !.placed = <<>>,
             !.selects = <<>>]

\* loadState: the instance after the call
loadState(s) ==
  IF ~loadStateOK(s) THEN s
  ELSE LET j == s.storage.json
       IN [s EXCEPT
             !.imageName = IF j.imageName = "" THEN DefaultName ELSE j.imageName,
             !.startX = IF IsNum(j.startX) THEN j.startX[1] ELSE s.startX,
             !.startY = IF IsNum(j.startY) THEN j.startY[1] ELSE s.startY,
             !.delay = IF IsNum(j.delay) THEN j.delay[1] ELSE s.delay,
             !.cellW = IF IsNum(j.cellW) THEN j.cellW ELSE s.cellW,
             !.cellH = IF IsNum(j.cellH) THEN j.cellH ELSE s.cellH,
             !.pixels = j.remaining,
             !.currentPixel = 0,
             !.placed = <<>>,
             !.selects = <<>>]

\* ScanEntries with <= for <: the last of the nearest entries wins
RECURSIVE ScanEntriesLastWins(_, _, _, _, _, _)
ScanEntriesLastWins(pal, target, onlyUnlocked, i, best, bestD) ==
  IF i > Len(pal) THEN best
  ELSE LET e == pal[i]
           rgb == rgbStringToObject(e.color)
       IN IF (onlyUnlocked /\ e.locked) \/ rgb = Null
          THEN ScanEntriesLastWins(pal, target, onlyUnlocked, i + 1, best, bestD)
          ELSE LET d == Dist2(target, rgb[1])
               IN IF bestD = -1 \/ d <= bestD
                  THEN ScanEntriesLastWins(pal, target, onlyUnlocked, i + 1, i, d)
                  ELSE ScanEntriesLastWins(pal, target, onlyUnlocked, i + 1, best, bestD)

(***************************************************************************)
(* Palette lookup and the locked-colour policy.  A palette entry is        *)
(* [color |-> digit groups of the computed background colour, locked].     *)
(***************************************************************************)
\* the for loop of findClosestEntry from entry i on; best = 0 is null,
\* bestD = -1 is Infinity
RECURSIVE ScanEntries(_, _, _, _, _, _)
ScanEntries(pal, target, onlyUnlocked, i, best, bestD) ==
  IF i > Len(pal) THEN best
  ELSE LET e == pal[i]
           rgb == rgbStringToObject(e.color)
       IN IF (onlyUnlocked /\ e.locked) \/ rgb = Null
          THEN ScanEntries(pal, target, onlyUnlocked, i + 1, best, bestD)
          ELSE LET d == Dist2(target, rgb[1])
               IN IF bestD = -1 \/ d < bestD
                  THEN ScanEntries(pal, target, onlyUnlocked, i + 1, i, d)
                  ELSE ScanEntries(pal, target, onlyUnlocked, i + 1, best, bestD)

\* findClosestEntry never restricting the scan
findClosestEntryAny(pal, targetHex, onlyUnlocked) ==
  LET t == hexToRgb(targetHex)
      target == IF t = Null THEN [r |-> 0, g |-> 0, b |-> 0] ELSE t[1]
  IN ScanEntries(pal, target, FALSE, 1, 0, -1)

\* findClosestEntry: the index of the entry returned, 0 for null
findClosestEntry(pal, targetHex, onlyUnlocked) ==
  LET t == hexToRgb(targetHex)
      target == IF t = Null THEN [r |-> 0, g |-> 0, b |-> 0] ELSE t[1]
  IN ScanEntries(pal, target, onlyUnlocked, 1, 0, -1)

\* selectColorSmart leaving auto mode on when it gives the choice back
selectColorSmartNoDowngrade(s, targetHex) ==
  LET pal == s.colorPalette
      none(r) == [ret |-> r, click |-> 0, s |-> s]
      pick(i) == [ret |-> "true", click |-> i,
                  s |-> [s EXCEPT !.selectedColor = rgbToHex(pal[i].color),
                                  !.selects = Logged(s, s.selects, pal[i])]]
      closest == findClosestEntry(pal, targetHex, FALSE)
      unlocked == findClosestEntry(pal, targetHex, TRUE)
  IN IF Len(pal) = 0 \/ closest = 0 THEN none("false")
     ELSE IF pal[closest].locked
          THEN IF s.lockedColorMode = "skip" THEN none("SKIP")
               ELSE IF s.lockedColorMode = "manual" THEN none("false")
               ELSE IF unlocked # 0 THEN pick(unlocked)
               ELSE none("false")
     ELSE pick(closest)

\* selectColorSmart asking the mode before it looks at the palette
selectColorSmartModeFirst(s, targetHex) ==
  LET pal == s.colorPalette
      none(r, a) == [ret |-> r, click |-> 0, s |-> [s EXCEPT !.useAutoPalette = a]]
      pick(i) == [ret |-> "true", click |-> i,
                  s |-> [s EXCEPT !.selectedColor = rgbToHex(pal[i].color),
                                  !.selects = Logged(s, s.selects, pal[i])]]
      closest == findClosestEntry(pal, targetHex, FALSE)
      unlocked == findClosestEntry(pal, targetHex, TRUE)
  IN IF closest = 0 \/ pal[closest].locked
     THEN IF s.lockedColorMode = "skip" THEN none("SKIP", s.useAutoPalette)
          ELSE IF s.lockedColorMode = "manual" THEN none("false", FALSE)
          ELSE IF unlocked # 0 THEN pick(unlocked)
          ELSE none("false", FALSE)
     ELSE pick(closest)

\* selectColorSmart that in mode map clicks the nearest swatch, locked or not
selectColorSmartClicksLocked(s, targetHex) ==
  LET pal == s.colorPalette
      none(r, a) == [ret |-> r, click |-> 0, s |-> [s EXCEPT !.useAutoPalette = a]]
      pick(i) == [ret |-> "true", click |-> i,
                  s |-> [s EXCEPT !.selectedColor = rgbToHex(pal[i].color),
                                  !.selects = Logged(s, s.selects, pal[i])]]
      closest == findClosestEntry(pal, targetHex, FALSE)
  IN IF Len(pal) = 0 THEN none("false", s.useAutoPalette)
     ELSE IF closest = 0 THEN none("false", s.useAutoPalette)
     ELSE IF pal[closest].locked
          THEN IF s.lockedColorMode = "skip" THEN none("SKIP", s.useAutoPalette)
               ELSE IF s.lockedColorMode = "manual" THEN none("false", FALSE)
               ELSE pick(closest)
     ELSE pick(closest)

\* selectColorSmart: ret is "SKIP", "true" or "false"; click is the index
\* of the entry whose element is clicked (0: none); s is the instance after
selectColorSmart(s, targetHex) ==
  LET pal == s.colorPalette
      none(r, a) == [ret |-> r, click |-> 0, s |-> [s EXCEPT !.useAutoPalette = a]]
      pick(i) == [ret |-> "true", click |-> i,
                  s |-> [s EXCEPT !.selectedColor = rgbToHex(pal[i].color),
                                  !.selects = Logged(s, s.selects, pal[i])]]
      closest == findClosestEntry(pal, targetHex, FALSE)
      unlocked == findClosestEntry(pal, targetHex, TRUE)
  IN IF Len(pal) = 0 THEN none("false", s.useAutoPalette)
     ELSE IF closest = 0 THEN none("false", s.useAutoPalette)
     ELSE IF pal[closest].locked
          THEN IF s.lockedColorMode = "skip" THEN none("SKIP", s.useAutoPalette)
               ELSE IF s.lockedColorMode = "manual" THEN none("false", FALSE)
               ELSE IF unlocked # 0 THEN pick(unlocked)
               ELSE none("false", FALSE)
     ELSE pick(closest)

\* loadImageFromData(pixelData, name); pixelData is [isArray, items]
loadImageFromData(s, pixelData, name) ==
  LET norm == IF pixelData.isArray THEN Normalize(pixelData.items) ELSE Null
      arg == [data |-> pixelData, name |-> name]
  IN IF norm = Null THEN Called(s, "loadImageFromData", arg, FALSE)
     ELSE LET dedup == Dedup(norm[1])
              s1 == [s EXCEPT !.pixels = dedup, !.currentPixel = 0,
                              !.imageName = name,
                              !.placed = <<>>, !.selects = <<>>]
              s2 == IF Len(dedup) <= largeSaveCap THEN saveState(s1) ELSE s1
          IN Called(s2, "loadImageFromData", arg, TRUE)

(***************************************************************************)
(* The drawing loop.  loops[l] is one activation of start(): free, or      *)
(* suspended in sleep(180) after a colour switch ("settle", holding the    *)
(* x, y it computed), in sleep(1) after a skip ("yield") or in             *)
(* sleep(this.delay) ("delay"); W and H are the constants start() took     *)
(* from the cell size when it was called.                                  *)
(***************************************************************************)
FreeLoop == [pc |-> "free", W |-> 0, H |-> 0, x |-> 0, y |-> 0]
Asleep(pc, W, H, x, y) == [pc |-> pc, W |-> W, H |-> H, x |-> x, y |-> y]

ActiveLoops(s) == {l \in 1..MaxLoops : s.loops[l].pc # "free"}
FirstFree(s) == CHOOSE l \in 1..MaxLoops :
                  /\ s.loops[l].pc = "free"
                  /\ \A k \in 1..(l - 1) : s.loops[k].pc # "free"

\* clickCanvas with the two offsets exchanged
clickCanvasSwapped(s, x, y) ==
  IF ~s.canvas THEN s ELSE [s EXCEPT !.placed = Logged(s, @, <<y, x>>)]

\* clickCanvas: one placement when the canvas is located
clickCanvas(s, x, y) ==
  IF ~s.canvas THEN s ELSE [s EXCEPT !.placed = Logged(s, @, <<x, y>>)]

\* ClickAndSleep with a saveState that lets the exception of setItem out:
\* it ends the activation where the autosave was due
ClickAndSleepUncaught(s, l, W, H, x, y) ==
  LET s1 == clickCanvas(s, x, y)
      s2 == [s1 EXCEPT !.currentPixel = @ + 1]
  IN IF s2.currentPixel % autosaveEvery = 0
     THEN IF s2.store = "rejects" THEN [s2 EXCEPT !.loops[l] = FreeLoop]
          ELSE [saveState(s2) EXCEPT !.loops[l] = Asleep("delay", W, H, 0, 0)]
     ELSE [s2 EXCEPT !.loops[l] = Asleep("delay", W, H, 0, 0)]

\* ClickAndSleep without the periodic save
ClickAndSleepNoAutosave(s, l, W, H, x, y) ==
  LET s1 == clickCanvas(s, x, y)
  IN [s1 EXCEPT !.currentPixel = @ + 1, !.loops[l] = Asleep("delay", W, H, 0, 0)]

\* the step from the click to the pause between tasks
ClickAndSleep(s, l, W, H, x, y) ==
  LET s1 == clickCanvas(s, x, y)
      s2 == [s1 EXCEPT !.currentPixel = @ + 1]
      s3 == IF s2.currentPixel % autosaveEvery = 0 THEN saveState(s2) ELSE s2
  IN [s3 EXCEPT !.loops[l] = Asleep("delay", W, H, 0, 0)]

\* LoopExit without the save of the stopped branch
LoopExitNoSave(s, l) ==
  LET s1 == [s EXCEPT !.isRunning = FALSE, !.loops[l] = FreeLoop]
  IN IF s1.currentPixel >= Len(s1.pixels) THEN clearState(s1) ELSE s1

\* LoopExit leaving the slot in place at the end of the queue
LoopExitKeepsSlot(s, l) ==
  LET s1 == [s EXCEPT !.isRunning = FALSE, !.loops[l] = FreeLoop]
  IN IF s1.currentPixel >= Len(s1.pixels) THEN s1 ELSE saveState(s1)

\* the end of start(), after the while loop
LoopExit(s, l) ==
  LET s1 == [s EXCEPT !.isRunning = FALSE, !.loops[l] = FreeLoop]
  IN IF s1.currentPixel >= Len(s1.pixels) THEN clearState(s1) ELSE saveState(s1)

\* LoopTop placing the task it skips
LoopTopSkipClicks(s, l, W, H) ==
  IF s.isRunning /\ s.currentPixel < Len(s.pixels)
  THEN LET p == s.pixels[s.currentPixel + 1]
           x == s.startX + p.x * W + (W \div 2)
           y == s.startY + p.y * H + (H \div 2)
       IN IF Unusable(p) THEN [s EXCEPT !.loops[l] = FreeLoop]
          ELSE IF s.useAutoPalette
          THEN LET res == selectColorSmart(s, p.color)
               IN IF res.ret = "true"
                  THEN [res.s EXCEPT !.loops[l] = Asleep("settle", W, H, x, y)]
                  ELSE ClickAndSleep(res.s, l, W, H, x, y)
          ELSE ClickAndSleep(s, l, W, H, x, y)
  ELSE LoopExit(s, l)

\* LoopTop passing over the task for which no swatch was selected
LoopTopDeferNoClick(s, l, W, H) ==
  IF s.isRunning /\ s.currentPixel < Len(s.pixels)
  THEN LET p == s.pixels[s.currentPixel + 1]
           x == s.startX + p.x * W + (W \div 2)
           y == s.startY + p.y * H + (H \div 2)
       IN IF Unusable(p) THEN [s EXCEPT !.loops[l] = FreeLoop]
          ELSE IF s.useAutoPalette
          THEN LET res == selectColorSmart(s, p.color)
               IN IF res.ret = "true"
                  THEN [res.s EXCEPT !.loops[l] = Asleep("settle", W, H, x, y)]
                  ELSE [res.s EXCEPT !.currentPixel = @ + 1,
                                     !.loops[l] = Asleep("yield", W, H, 0, 0)]
          ELSE ClickAndSleep(s, l, W, H, x, y)
  ELSE LoopExit(s, l)

\* from the while condition to the next await, or to the end of start().
\* Reading p.x of a null task throws a TypeError that nothing in start()
\* catches: the activation ends there, with isRunning as it is.
LoopTop(s, l, W, H) ==
  IF s.isRunning /\ s.currentPixel < Len(s.pixels)
  THEN LET p == s.pixels[s.currentPixel + 1]
           x == s.startX + p.x * W + (W \div 2)
           y == s.startY + p.y * H + (H \div 2)
       IN IF Unusable(p) THEN [s EXCEPT !.loops[l] = FreeLoop]
          ELSE IF s.useAutoPalette
          THEN LET res == selectColorSmart(s, p.color)
               IN IF res.ret = "SKIP"
                  THEN [res.s EXCEPT !.currentPixel = @ + 1,
                                     !.loops[l] = Asleep("yield", W, H, 0, 0)]
                  ELSE IF res.ret = "true"
                  THEN [res.s EXCEPT !.loops[l] = Asleep("settle", W, H, x, y)]
                  ELSE ClickAndSleep(res.s, l, W, H, x, y)
          ELSE ClickAndSleep(s, l, W, H, x, y)
  ELSE LoopExit(s, l)

\* StartAccepted without the test of the run flag
StartAcceptedRunning(s) == Len(s.pixels) # 0 /\ s.canvas

\* StartAccepted without the test of the canvas
StartAcceptedNoCanvas(s) == ~s.isRunning /\ Len(s.pixels) # 0

\* whether start() gets past its three early returns
StartAccepted(s) == ~s.isRunning /\ Len(s.pixels) # 0 /\ s.canvas

\* start() taking 1 for a cell height that is not set
startHeightOne(s) ==
  IF ~StartAccepted(s) THEN s
  ELSE LET s1 == [s EXCEPT !.useAutoPalette =
                              IF @ /\ Len(s.colorPalette) = 0 THEN FALSE ELSE @]
           W == IF IsNum(s.cellW) /\ s.cellW[1] > 0 THEN s.cellW[1] ELSE 1
           H == IF IsNum(s.cellH) /\ s.cellH[1] > 0 THEN s.cellH[1] ELSE 1
       IN LoopTop([s1 EXCEPT !.isRunning = TRUE], FirstFree(s), W, H)

\* start() taking the cell width for the height as well
startSquareCells(s) ==
  IF ~StartAccepted(s) THEN s
  ELSE LET s1 == [s EXCEPT !.useAutoPalette =
                              IF @ /\ Len(s.colorPalette) = 0 THEN FALSE ELSE @]
           W == IF IsNum(s.cellW) /\ s.cellW[1] > 0 THEN s.cellW[1] ELSE 1
       IN LoopTop([s1 EXCEPT !.isRunning = TRUE], FirstFree(s), W, W)

\* start(): up to its first await
start(s) ==
  IF ~StartAccepted(s) THEN s
  ELSE LET s1 == [s EXCEPT !.useAutoPalette =
                              IF @ /\ Len(s.colorPalette) = 0 THEN FALSE ELSE @]
           W == IF IsNum(s.cellW) /\ s.cellW[1] > 0 THEN s.cellW[1] ELSE 1
           H == IF IsNum(s.cellH) /\ s.cellH[1] > 0 THEN s.cellH[1] ELSE W
       IN LoopTop([s1 EXCEPT !.isRunning = TRUE], FirstFree(s), W, H)

\* wake looking at the run flag before the placement
wakeChecksFlag(s, l) ==
  LET a == s.loops[l]
  IN IF a.pc = "settle" /\ s.isRunning THEN ClickAndSleep(s, l, a.W, a.H, a.x, a.y)
     ELSE LoopTop(s, l, a.W, a.H)

\* a timer of loop l fires: start() continues after its await
wake(s, l) ==
  LET a == s.loops[l]
  IN IF a.pc = "settle" THEN ClickAndSleep(s, l, a.W, a.H, a.x, a.y)
     ELSE LoopTop(s, l, a.W, a.H)

stop(s) == saveState([s EXCEPT !.isRunning = FALSE])

resume(s) ==
  IF Len(s.pixels) = 0
  THEN IF ~loadStateOK(s) THEN s ELSE start(loadState(s))
  ELSE start(s)

\* whether resume() reaches a start() that gets past its early returns
ResumeStarts(s) ==
  IF Len(s.pixels) = 0
  THEN loadStateOK(s) /\ StartAccepted(loadState(s))
  ELSE StartAccepted(s)

\* refreshPalette: findColorPalette replaces the snapshot by what it finds
refreshPalette(s, found) == [s EXCEPT !.colorPalette = found]

setLockedColorMode(s, mode) ==
  IF mode \notin {"skip", "map", "manual"} THEN s
  ELSE [s EXCEPT !.lockedColorMode = mode]

setManualColorMode(s, on) == [s EXCEPT !.useAutoPalette = ~on]

\* setStartPosition(x, y) for integers within 32 bits, which x|0 keeps
setStartPosition(s, x, y) == saveState([s EXCEPT !.startX = x, !.startY = y])

\* setDelay(ms) for an integer within 32 bits: Math.max(0, ms|0)
setDelay(s, ms) == saveState([s EXCEPT !.delay = IF ms < 0 THEN 0 ELSE ms])

\* Math.round of the number h/2: halves round up
Round(h) == (h + 1) \div 2

\* calibrate(), after its two clicks h/2 pixels apart horizontally
calibrate(s, h) ==
  IF h < 2 THEN s ELSE saveState([s EXCEPT !.cellW = Num(Round(h))])

\* calibrateY(), after its two clicks h/2 pixels apart vertically
calibrateY(s, h) ==
  IF h < 2 THEN s ELSE saveState([s EXCEPT !.cellH = Num(Round(h))])

\* setCellSize(w, h) for the numbers w/2 and h/2
setCellSize(s, w, h) ==
  IF w <= 0 \/ h <= 0 THEN s
  ELSE saveState([s EXCEPT !.cellW = Num(Round(w)), !.cellH = Num(Round(h))])

\* new WPlaceBot(): the fields the constructor sets, beside a given slot
Constructed(slot, watch) ==
  [isRunning |-> FALSE, delay |-> DefaultDelay, currentPixel |-> 0,
   pixels |-> <<>>, startX |-> 0, startY |-> 0, canvas |-> FALSE,
   colorPalette |-> <<>>, selectedColor |-> Black,
   useAutoPalette |-> TRUE, lockedColorMode |-> "map",
   cellW |-> Null, cellH |-> Null, imageName |-> DefaultName,
   storage |-> slot, store |-> "ok",
   loops |-> [l \in 1..MaxLoops |-> FreeLoop],
   placed |-> <<>>, selects |-> <<>>, lastCall |-> watch]

\* init(): findCanvas, findColorPalette, loadState
init(s, canvasFound, found) ==
  loadState([s EXCEPT !.canvas = canvasFound, !.colorPalette = found])

(***************************************************************************)
(* The values the runs draw from.                                          *)
(***************************************************************************)
Red == rgbToHex(<<255, 0, 0>>).v    \* FF0000
Blue == rgbToHex(<<0, 0, 255>>).v   \* 0000FF

Swatch(m, locked) == [color |-> m, locked |-> locked]
RedSwatch(locked) == Swatch(<<255, 0, 0>>, locked)
BlueSwatch(locked) == Swatch(<<0, 0, 255>>, locked)

RawNum(h) == [t |-> "num", h |-> h]
RawHex(v) == [t |-> "hex", v |-> v, pad |-> FALSE]
RawRgb(m) == [t |-> "rgb", m |-> m]
RawItem(x, y, c) == [x |-> x, y |-> y, color |-> c]
Array(items) == [isArray |-> TRUE, items |-> items]

\* item i of an image two cells wide, red and blue alternating
ImageItem(i) ==
  RawItem(RawNum(2 * ((i - 1) % 2)), RawNum(2 * ((i - 1) \div 2)),
          IF i % 2 = 1 THEN RawHex(Red) ELSE RawRgb(<<0, 0, 255>>))

\* an image of n cells, listed last cell first
Image(n) == Array([i \in 1..n |-> ImageItem(n + 1 - i)])

\* a batch whose second item has a negative coordinate
BadBatch == Array(<<ImageItem(1), RawItem(RawNum(-1), RawNum(0), RawHex(Red))>>)

EngineInputs == {Image(n) : n \in 1..MaxEngine} \cup {BadBatch}

EnginePalettes ==
  { <<>>,
    <<RedSwatch(TRUE), BlueSwatch(FALSE)>>,
    <<RedSwatch(TRUE)>> }

Modes == {"skip", "map", "manual"}

Is(s) ==
  /\ isRunning = s.isRunning
  /\ delay = s.delay
  /\ currentPixel = s.currentPixel
  /\ pixels = s.pixels
  /\ startX = s.startX
  /\ startY = s.startY
  /\ canvas = s.canvas
  /\ colorPalette = s.colorPalette
  /\ selectedColor = s.selectedColor
  /\ useAutoPalette = s.useAutoPalette
  /\ lockedColorMode = s.lockedColorMode
  /\ cellW = s.cellW
  /\ cellH = s.cellH
  /\ imageName = s.imageName
  /\ storage = s.storage
  /\ store = s.store
  /\ loops = s.loops
  /\ placed = s.placed
  /\ selects = s.selects
  /\ lastCall = s.lastCall

(***************************************************************************)
(* The engine: console calls interleaved with the timers of the loops.     *)
(***************************************************************************)
\* a call that would start a loop needs a free activation record
HasFree(s) == \E l \in 1..MaxLoops : s.loops[l].pc = "free"

Load == \E d \in EngineInputs : Do(loadImageFromData(This, d, "A"))

Start ==
  /\ StartAccepted(This) => HasFree(This)
  /\ Do(start(This))

Stop == Do(stop(This))

Resume ==
  /\ ResumeStarts(This) => HasFree(This)
  /\ Do(resume(This))

Wake == \E l \in ActiveLoops(This) : Do(wake(This, l))

Refresh == \E found \in EnginePalettes : Do(refreshPalette(This, found))

SetMode == \E m \in Modes \cup {"other"} : Do(setLockedColorMode(This, m))

SetManual == \E on \in BOOLEAN : Do(setManualColorMode(This, on))

\* the page is reloaded and the file pasted again: the loops are gone, the
\* slot stays
Reload ==
  \E c \in BOOLEAN, found \in EnginePalettes :
    Do(init(Constructed(storage, Unwatched), c, found))

Init ==
  \E c \in BOOLEAN, found \in EnginePalettes :
    Is(init(Constructed(Absent, Unwatched), c, found))

Next ==
  \/ Load
  \/ Start
  \/ Stop
  \/ Resume
  \/ Wake
  \/ Refresh
  \/ SetMode
  \/ SetManual
  \/ Reload

Spec == Init /\ [][Next]_vars

(***************************************************************************)
(* C1.  At most one drawing loop is ever active: no activation of start()  *)
(* begins stepping through the queue while an earlier one has not exited.  *)
(* stop() clears isRunning at once, so a start() called while the stopped  *)
(* loop is still asleep passes the isRunning test and runs beside it.      *)
(***************************************************************************)
C1_OneLoopActive == Cardinality(ActiveLoops(This)) <= 1

(***************************************************************************)
(* C3.  Stop remainder: when a loop exits with the cursor j short of the   *)
(* end of a queue of k tasks, k under the save cap, the run flag is false  *)
(* and the slot holds exactly tasks j..k-1 in order.  Every attempt, click *)
(* or skip, advances the cursor by one in the same segment, so the cursor  *)
(* is the number of attempts made.                                         *)
(***************************************************************************)
LoopExits(l) == loops[l].pc # "free" /\ loops'[l].pc = "free"

C3_StopRemainder ==
  [][\A l \in 1..MaxLoops :
       (/\ LoopExits(l)
        /\ currentPixel' < Len(pixels')
        /\ Len(pixels') <= largeSaveCap)
       => /\ ~isRunning'
          /\ storage'.kind = "text"
          /\ Len(storage'.json.remaining) = Len(pixels') - currentPixel'
          /\ storage'.json.remaining
               = SubSeq(pixels', currentPixel' + 1, Len(pixels'))]_vars

\* a loop has made an attempt, was stopped and has exited short of the end
C3_Witness ==
  /\ ActiveLoops(This) = {}
  /\ ~isRunning
  /\ currentPixel > 0
  /\ currentPixel < Len(pixels)
  /\ storage.kind = "text"
  /\ storage.json.remaining = SubSeq(pixels, currentPixel + 1, Len(pixels))

(***************************************************************************)
(* One session left to run: a queue is loaded, start() and resume() are    *)
(* called and the timers fire; nothing stops the loop or changes the       *)
(* settings.  The clicks are observed.                                     *)
(***************************************************************************)
Calibrations == {"none", "x", "y", "xy"}

RunSetup(k, found, mode, origin, cal) ==
  LET s0 == init(Constructed(Absent, Events), TRUE, found)
      s1 == setLockedColorMode(s0, mode)
      s2 == setStartPosition(s1, origin[1], origin[2])
      s3 == IF cal \in {"x", "xy"} THEN calibrate(s2, 4) ELSE s2
      s4 == IF cal \in {"y", "xy"} THEN calibrateY(s3, 5) ELSE s3
  IN loadImageFromData(s4, Image(k), "A")

RunInit ==
  \E k \in 1..MaxTasks, found \in EnginePalettes, mode \in Modes,
     origin \in {<<0, 0>>, <<120, 300>>}, cal \in Calibrations :
    Is(RunSetup(k, found, mode, origin, cal))

RunStart == Do(start(This))

RunResume == Do(resume(This))

RunWake == \E l \in ActiveLoops(This) : Do(wake(This, l))

RunNext ==
  \/ RunStart
  \/ RunResume
  \/ RunWake

\* a timer that is set fires
SpecRun == RunInit /\ [][RunNext]_vars /\ WF_vars(RunWake)

Finished ==
  /\ ~isRunning
  /\ ActiveLoops(This) = {}
  /\ currentPixel = Len(pixels)
  /\ storage = Absent

(***************************************************************************)
(* C2.  Run to completion: a start() on a loaded queue of k >= 1 tasks     *)
(* that nothing stops ends, under fair timers, with the cursor at k, the   *)
(* run flag false and the slot removed; on the way the cursor advances by  *)
(* one at a time.                                                          *)
(***************************************************************************)
C2_RunToCompletion ==
  /\ isRunning ~> Finished
  /\ [][currentPixel' = currentPixel \/ currentPixel' = currentPixel + 1]_vars

\* a queue of more than one task has been run to its end
C2_Witness == Finished /\ Len(pixels) > 1 /\ Len(placed) + Len(selects) > 0

(***************************************************************************)
(* C9.  Manual-mode placement sequence: with an empty palette and an       *)
(* uncalibrated grid, a run to completion has clicked the canvas exactly   *)
(* once per task, at (startX + x, startY + y), in queue order, which is    *)
(* ascending (y, x); it has clicked no swatch and the slot is removed.     *)
(***************************************************************************)
C9_ManualPlacements ==
  (/\ colorPalette = <<>>
   /\ cellW = Null /\ cellH = Null
   /\ ~isRunning /\ ActiveLoops(This) = {}
   /\ currentPixel > 0)
  => /\ currentPixel = Len(pixels)
     /\ placed = [i \in 1..Len(pixels) |->
                    <<startX + pixels[i].x, startY + pixels[i].y>>]
     /\ \A i, j \in 1..Len(pixels) : i < j => Before(pixels[i], pixels[j])
     /\ selects = <<>>
     /\ storage = Absent

\* such a run has ended, away from the origin and over more than one row
C9_Witness ==
  /\ colorPalette = <<>>
  /\ cellW = Null /\ cellH = Null
  /\ Finished
  /\ Len(placed) = MaxTasks
  /\ startX = 120
  /\ \E i \in 1..Len(pixels) : pixels[i].y > 0

(***************************************************************************)
(* loadImageFromData on every raw list up to MaxLen, called once on an     *)
(* instance that is fresh or holds an earlier image stopped midway.  In    *)
(* the valid items x is 0, 0.5 or 1, y is 0 or 1.5 and the colour is       *)
(* ' #FF0000 ' or 'rgb(0,0,255)'; each bad item has one field wrong; the   *)
(* lax item's colour is 'rgb(1,2,3,4)'.                                    *)
(***************************************************************************)
ValidItems ==
  {RawItem(x, y, c) :
     x \in {RawNum(0), RawNum(1), RawNum(2)},
     y \in {RawNum(0), RawNum(3)},
     c \in {[t |-> "hex", v |-> Red, pad |-> TRUE], RawRgb(<<0, 0, 255>>)}}

BadItems ==
  {RawItem(x, RawNum(0), RawHex(Red)) :
     x \in {RawNum(-1), [t |-> "nan"], [t |-> "inf"], [t |-> "str"]}}
  \cup {RawItem(RawNum(0), RawNum(-2), RawHex(Red))}
  \cup {RawItem(RawNum(0), RawNum(0), c) :
          c \in {[t |-> "other"], [t |-> "nostr"], RawRgb(<<1, 2>>)}}

\* 'rgb(1,2,3,4)': begins with rgb( and holds four digit groups
LaxItems == {RawItem(RawNum(0), RawNum(0), RawRgb(<<1, 2, 3, 4>>))}

RawLists == UNION {[1..n -> ValidItems \cup BadItems \cup LaxItems] : n \in 0..MaxLen}

PriorFresh == init(Constructed(Absent, Watched), TRUE, <<>>)

\* "Old", two tasks, started and stopped after the first
PriorStopped ==
  LET a == loadImageFromData(PriorFresh, Image(2), "Old")
      b == wake(stop(start(a)), 1)
  IN [b EXCEPT !.lastCall = Watched]

LoadInit == Is(PriorFresh) \/ Is(PriorStopped)

LoadCall ==
  /\ lastCall = Watched
  /\ \E items \in RawLists : Do(loadImageFromData(This, Array(items), "New"))

LoadNoArray ==
  /\ lastCall = Watched
  /\ Do(loadImageFromData(This, [isArray |-> FALSE, items |-> <<>>], "New"))

LoadNext ==
  \/ LoadCall
  \/ LoadNoArray

SpecLoad == LoadInit /\ [][LoadNext]_vars

\* what the claims say of a raw item
Malformed(p) ==
  \/ p.x.t # "num" \/ p.y.t # "num"
  \/ (p.x.t = "num" /\ p.x.h < 0)
  \/ (p.y.t = "num" /\ p.y.h < 0)
  \/ p.color.t \in {"other", "nostr"}
  \/ (p.color.t = "rgb" /\ Len(p.color.m) # 3)

\* the 24-bit value a well-formed raw colour denotes
Denotes(c) ==
  IF c.t = "hex" THEN c.v ELSE c.m[1] * 65536 + c.m[2] * 256 + c.m[3]

Cell(p) == <<p.x.h \div 2, p.y.h \div 2>>

LoadReturned == lastCall.op = "loadImageFromData"
LoadedItems == lastCall.arg.data.items

(***************************************************************************)
(* C4.  Dedup and order: for every list of well-formed raw pixels the      *)
(* call succeeds and the queue holds exactly one task per distinct         *)
(* (floor(x), floor(y)) of the list, with the colour of the last item at   *)
(* those coordinates, sorted ascending by (y, x).                          *)
(***************************************************************************)
C4_DedupOrder ==
  (/\ LoadReturned
   /\ lastCall.arg.data.isArray
   /\ \A i \in 1..Len(LoadedItems) : ~Malformed(LoadedItems[i]))
  => LET items == LoadedItems
         cells == {Cell(items[i]) : i \in 1..Len(items)}
         last(c) == CHOOSE i \in 1..Len(items) :
                      /\ Cell(items[i]) = c
                      /\ \A j \in (i + 1)..Len(items) : Cell(items[j]) # c
     IN /\ lastCall.ret = TRUE
        /\ Len(pixels) = Cardinality(cells)
        /\ \A c \in cells :
             \E i \in 1..Len(pixels) :
               /\ <<pixels[i].x, pixels[i].y>> = c
               /\ pixels[i].color = [n |-> 6, v |-> Denotes(items[last(c)].color)]
        /\ \A i, j \in 1..Len(pixels) :
             i < j => \/ pixels[i].y < pixels[j].y
                      \/ (pixels[i].y = pixels[j].y /\ pixels[i].x < pixels[j].x)

\* three items, two of them in one cell with different colours, given out
\* of order
C4_Witness ==
  /\ LoadReturned
  /\ lastCall.ret = TRUE
  /\ Len(LoadedItems) = 3
  /\ Len(pixels) = 2
  /\ Cell(LoadedItems[1]) = Cell(LoadedItems[3])
  /\ LoadedItems[1].x # LoadedItems[3].x
  /\ LoadedItems[1].color # LoadedItems[3].color
  /\ LoadedItems[2].y.h < LoadedItems[1].y.h

(***************************************************************************)
(* C10.  Validation is atomic: when any item of the batch is malformed     *)
(* (a coordinate that is no number, not finite or negative, a colour that  *)
(* is neither #RRGGBB nor rgb(r,g,b)) the call returns false and leaves    *)
(* the queue, the cursor, the image name and the slot as they were,        *)
(* however many valid items come first.                                    *)
(***************************************************************************)
C10_AtomicValidation ==
  [][(/\ lastCall = Watched
      /\ lastCall'.op = "loadImageFromData"
      /\ \/ ~lastCall'.arg.data.isArray
         \/ \E i \in 1..Len(lastCall'.arg.data.items) :
              Malformed(lastCall'.arg.data.items[i]))
     => /\ lastCall'.ret = FALSE
        /\ UNCHANGED <<pixels, currentPixel, imageName, storage>>]_vars

(***************************************************************************)
(* Persistence runs: a session with a queue of up to MaxStored tasks and   *)
(* the cursor anywhere in it, whose slot was cleared from the console, is  *)
(* saved once; then the page is reloaded and init() restores the slot in   *)
(* a new instance.  lastCall keeps the queue and cursor that were saved.   *)
(***************************************************************************)
Session(n, j, name, origin, ms, cal) ==
  LET s0 == init(Constructed(Absent, Watched), TRUE, <<>>)
      s1 == setStartPosition(s0, origin[1], origin[2])
      s2 == setDelay(s1, ms)
      s3 == IF cal THEN setCellSize(s2, 4, 5) ELSE s2
      s4 == IF n = 0 THEN s3 ELSE loadImageFromData(s3, Image(n), name)
  IN [clearState(s4) EXCEPT !.currentPixel = j, !.lastCall = Watched]

StoreInit ==
  \E n \in 0..MaxStored, name \in {"A", ""}, origin \in {<<0, 0>>, <<120, 300>>},
     ms \in {300, -5}, cal \in BOOLEAN :
    \E j \in 0..n : Is(Session(n, j, name, origin, ms, cal))

StoreSave ==
  /\ lastCall = Watched
  /\ Do(Called(saveState(This), "saveState",
               [pixels |-> pixels, currentPixel |-> currentPixel], Null))

StoreReload ==
  /\ lastCall.op = "saveState"
  /\ \E c \in BOOLEAN :
       LET fresh == Constructed(storage, lastCall)
       IN Do(Called(init(fresh, c, <<>>), "init", lastCall.arg, loadStateOK(fresh)))

StoreNext ==
  \/ StoreSave
  \/ StoreReload

SpecStore == StoreInit /\ [][StoreNext]_vars

Saved == lastCall.arg
SavedRemaining == Len(Saved.pixels) - Saved.currentPixel

(***************************************************************************)
(* C5.  Checkpoint round trip: when no more than the cap remain after the  *)
(* cursor, saveState() followed by loadState() in a fresh instance gives   *)
(* the tasks from the saved cursor on, same tasks in the same order, with  *)
(* the cursor at 0.                                                        *)
(***************************************************************************)
C5_RoundTrip ==
  (lastCall.op = "init" /\ SavedRemaining <= largeSaveCap)
  => /\ lastCall.ret = TRUE
     /\ Len(pixels) = SavedRemaining
     /\ \A i \in 1..Len(pixels) : pixels[i] = Saved.pixels[Saved.currentPixel + i]
     /\ currentPixel = 0

\* a session stopped after two of its tasks has been restored
C5_Witness ==
  /\ lastCall.op = "init"
  /\ Saved.currentPixel = 2
  /\ Len(pixels) = largeSaveCap
  /\ pixels[1] = Saved.pixels[3]

(***************************************************************************)
(* C6.  Truncation boundary: when more than the cap remain after the       *)
(* cursor, saveState() persists exactly the first cap of them, and         *)
(* loadState() never installs more than the cap from one save.             *)
(***************************************************************************)
C6_Truncation ==
  /\ (lastCall.op = "saveState" /\ SavedRemaining > largeSaveCap)
     => /\ storage.kind = "text"
        /\ Len(storage.json.remaining) = largeSaveCap
        /\ \A i \in 1..largeSaveCap :
             storage.json.remaining[i] = pixels[currentPixel + i]
  /\ lastCall.op = "init" => Len(pixels) <= largeSaveCap

\* a save with more than the cap remaining after a cursor that has moved,
\* restored
C6_Witness ==
  /\ lastCall.op = "init"
  /\ Saved.currentPixel > 0
  /\ SavedRemaining > largeSaveCap
  /\ Len(pixels) = largeSaveCap

(***************************************************************************)
(* Resolution runs: selectColorSmart called once for a target on every     *)
(* palette snapshot of up to MaxPal swatches, in each mode.  The swatches  *)
(* are at distance 0, 5 and far from the red target, locked or not; one    *)
(* has a background the helper reads no colour from.                       *)
(***************************************************************************)
SwatchPool ==
  {Swatch(m, k) :
     m \in {<<255, 0, 0>>, <<250, 0, 0>>, <<0, 0, 255>>, <<1, 2>>},
     k \in BOOLEAN}

Snapshots == UNION {[1..n -> SwatchPool] : n \in 0..MaxPal}

Targets == {Hex6(Red), Hex6(Blue)}

ResolveInit ==
  \E found \in Snapshots, mode \in Modes :
    Is(setLockedColorMode(init(Constructed(Absent, Watched), TRUE, found), mode))

Resolve ==
  /\ lastCall = Watched
  /\ \E target \in Targets :
       LET res == selectColorSmart(This, target)
       IN Do(Called(res.s, "selectColorSmart", target, res.ret))

ResolveNext == Resolve

SpecResolve == ResolveInit /\ [][ResolveNext]_vars

\* what the claims say of a snapshot: the distance of a swatch with a
\* colour, the nearest swatch (the first one on a tie), the same among the
\* unlocked
HasColour(e) == Len(e.color) >= 3
Away(e, target) ==
  LET r == target.v \div 65536
      g == (target.v \div 256) % 256
      b == target.v % 256
  IN (e.color[1] - r) ^ 2 + (e.color[2] - g) ^ 2 + (e.color[3] - b) ^ 2

NearestIn(pal, target, among) ==
  IF among = {} THEN 0
  ELSE CHOOSE i \in among :
         /\ \A j \in among : Away(pal[i], target) <= Away(pal[j], target)
         /\ \A j \in among : j < i => Away(pal[j], target) > Away(pal[i], target)

Coloured(pal) == {i \in 1..Len(pal) : HasColour(pal[i])}
Nearest(pal, target) == NearestIn(pal, target, Coloured(pal))
NearestUnlocked(pal, target) ==
  NearestIn(pal, target, {i \in Coloured(pal) : ~pal[i].locked})

Resolved == lastCall.op = "selectColorSmart"

(***************************************************************************)
(* C7.  Resolution policy table: when the nearest swatch A is locked and   *)
(* an unlocked swatch B exists, mode skip returns SKIP and clicks no       *)
(* swatch; mode manual returns false, clicks none and disables auto mode;  *)
(* mode map clicks the nearest unlocked swatch and returns true.  When the *)
(* nearest swatch is unlocked it is clicked in every mode.  Swatches are   *)
(* those a colour is read from.                                            *)
(***************************************************************************)
C7_PolicyTable ==
  Resolved =>
    LET pal == colorPalette
        a == Nearest(pal, lastCall.arg)
        b == NearestUnlocked(pal, lastCall.arg)
    IN /\ (a # 0 /\ pal[a].locked /\ b # 0) =>
            CASE lockedColorMode = "skip" ->
                   lastCall.ret = "SKIP" /\ selects = <<>> /\ useAutoPalette
              [] lockedColorMode = "manual" ->
                   lastCall.ret = "false" /\ selects = <<>> /\ ~useAutoPalette
              [] lockedColorMode = "map" ->
                   /\ lastCall.ret = "true"
                   /\ selects = <<pal[b]>>
                   /\ useAutoPalette
       /\ (a # 0 /\ ~pal[a].locked) =>
            /\ lastCall.ret = "true"
            /\ selects = <<pal[a]>>
            /\ useAutoPalette

\* the table's palette: A locked at distance 0, B unlocked at distance 5,
\* in mode map
C7_Witness ==
  /\ Resolved
  /\ lastCall.arg = Hex6(Red)
  /\ colorPalette = <<Swatch(<<255, 0, 0>>, TRUE), Swatch(<<250, 0, 0>>, FALSE)>>
  /\ lockedColorMode = "map"
  /\ selects = <<Swatch(<<250, 0, 0>>, FALSE)>>

(***************************************************************************)
(* C8.  Empty palette: with no swatch in the snapshot, resolving a target  *)
(* returns false in each of the three modes: no swatch is clicked and the  *)
(* task is not skipped.                                                    *)
(***************************************************************************)
C8_EmptyPalette ==
  (Resolved /\ colorPalette = <<>>)
  => /\ lastCall.ret = "false"
     /\ selects = <<>>

\* resolved on an empty snapshot in mode skip
C8_Witness ==
  /\ Resolved
  /\ colorPalette = <<>>
  /\ lockedColorMode = "skip"
  /\ lastCall.ret = "false"

(***************************************************************************)
(* Restore runs: the slot holds what another tab, an edit or an earlier    *)
(* version left there.  The instance is either constructed over it         *)
(* (init() reads it) or already holds a session of its own; then           *)
(* loadState(), resume(), start() and stop() are called from the console   *)
(* and the timers fire.  Every step names itself in lastCall.              *)
(***************************************************************************)
GoodRecord == StateObject(Session(3, 1, "B", <<7, 9>>, 50, FALSE))

Slots ==
  {Absent, EmptyText, Garbage, NullText}
  \cup {JsonStringify(r) :
          r \in {GoodRecord,
                 [GoodRecord EXCEPT !.version = 2],
                 [GoodRecord EXCEPT !.isArray = FALSE, !.remaining = <<>>],
                 [GoodRecord EXCEPT !.remaining = <<NullTask>>],
                 [GoodRecord EXCEPT !.remaining = <<GoodRecord.remaining[1], NullTask>>]}}

RestoreInit ==
  \E slot \in Slots :
    \/ \E c \in BOOLEAN : Is(init(Constructed(slot, Watched), c, <<>>))
    \/ \E j \in 0..2, cal \in BOOLEAN :
         Is([Session(2, j, "A", <<120, 300>>, 300, cal) EXCEPT
               !.canvas = TRUE, !.storage = slot])

RestoreLoadState == Do(Called(loadState(This), "loadState", Null, loadStateOK(This)))

RestoreResume ==
  /\ ResumeStarts(This) => HasFree(This)
  /\ Do(Called(resume(This), "resume", Null, Null))

RestoreStart ==
  /\ StartAccepted(This) => HasFree(This)
  /\ Do(Called(start(This), "start", Null, Null))

RestoreStop == Do(Called(stop(This), "stop", Null, Null))

RestoreWake == \E l \in ActiveLoops(This) : Do(Called(wake(This, l), "wake", l, Null))

RestoreNext ==
  \/ RestoreLoadState
  \/ RestoreResume
  \/ RestoreStart
  \/ RestoreStop
  \/ RestoreWake

SpecRestore == RestoreInit /\ [][RestoreNext]_vars

\* the slots loadState is to report as not found
NotFound(slot) ==
  \/ slot.kind \in {"absent", "empty", "garbage", "null"}
  \/ slot.kind = "text" /\ (slot.json.version # 1 \/ ~slot.json.isArray)

(***************************************************************************)
(* C11.  loadState fails soft: when the slot is missing, unparseable, of a *)
(* version other than 1 or without a remaining array, loadState() returns  *)
(* false and leaves the queue, the cursor, the image name, the start       *)
(* offset, the delay and the cell size as they were.  (Nothing escapes the *)
(* try block: the call always returns.)                                    *)
(***************************************************************************)
C11_LoadStateFailsSoft ==
  [][(lastCall'.op = "loadState" /\ NotFound(storage))
     => /\ lastCall'.ret = FALSE
        /\ UNCHANGED <<pixels, currentPixel, imageName, startX, startY,
                       delay, cellW, cellH>>]_vars

\* loadState() has refused a record of another version on an instance that
\* holds a session of its own, partly drawn
C11_Witness ==
  /\ lastCall.op = "loadState"
  /\ lastCall.ret = FALSE
  /\ storage.kind = "text"
  /\ storage.json.version # 1
  /\ imageName = "A"
  /\ currentPixel = 1
  /\ Len(pixels) = 2
  /\ startX = 120

(***************************************************************************)
(* C19.  No failure leaves the engine stuck in Running: when a step raises *)
(* (a restored task is unusable) the run flag returns to false, so the     *)
(* flag is never set with no loop left to clear it, and a later start() or *)
(* resume() is accepted.  start() has no handler: the TypeError of reading *)
(* p.x of a null task ends the loop after isRunning = true.                *)
(***************************************************************************)
C19_NeverStuck == isRunning => ActiveLoops(This) # {}

(***************************************************************************)
(* Runs over a store that may reject writes: a queue is loaded, start()    *)
(* and stop() are called and the timers fire, while the store turns from   *)
(* accepting to rejecting setItem and removeItem and back at any moment    *)
(* (quota reached, storage disabled).  Every step names itself in          *)
(* lastCall.                                                               *)
(***************************************************************************)
FaultyInit ==
  \E k \in 1..MaxTasks, found \in EnginePalettes, mode \in Modes,
     m \in {"ok", "rejects"} :
    LET s0 == init(Constructed(Absent, Watched), TRUE, found)
        s1 == setLockedColorMode(s0, mode)
        s2 == loadImageFromData([s1 EXCEPT !.store = m], Image(k), "A")
    IN Is([s2 EXCEPT !.lastCall = Watched])

FaultyTurn ==
  \E m \in {"ok", "rejects"} \ {store} :
    Do(Called([This EXCEPT !.store = m], "store", m, Null))

FaultyStart ==
  /\ StartAccepted(This) => HasFree(This)
  /\ Do(Called(start(This), "start", Null, Null))

FaultyStop == Do(Called(stop(This), "stop", Null, Null))

FaultyWake == \E l \in ActiveLoops(This) : Do(Called(wake(This, l), "wake", l, Null))

FaultyNext ==
  \/ FaultyTurn
  \/ FaultyStart
  \/ FaultyStop
  \/ FaultyWake

SpecFaulty == FaultyInit /\ [][FaultyNext]_vars

\* the instance beside a store that accepts the write
Healthy == [This EXCEPT !.store = "ok"]

\* what the instance holds in memory, and what it has clicked
Memory(s) ==
  <<s.pixels, s.currentPixel, s.isRunning, s.loops, s.useAutoPalette,
    s.selectedColor, s.placed, s.selects>>

(***************************************************************************)
(* C12.  Persistence write failures are non-fatal: when the store rejects  *)
(* a write or a remove at an autosave, a stop, a load or the finish, the   *)
(* failure does not propagate: queue, cursor, run flag and the loops are   *)
(* after every step exactly what the same step gives beside a store that   *)
(* accepts the write, so a running loop goes on to the next task.          *)
(***************************************************************************)
C12_WriteFailuresNonFatal ==
  [][/\ lastCall'.op = "start" => Memory(This)' = Memory(start(Healthy))
     /\ lastCall'.op = "stop" => Memory(This)' = Memory(stop(Healthy))
     /\ lastCall'.op = "wake" =>
          Memory(This)' = Memory(wake(Healthy, lastCall'.arg))]_vars

\* a queue reaching an autosave was run to its end beside a store that
\* rejected the removal: every task is placed and the slot is still there
C12_Witness ==
  /\ store = "rejects"
  /\ ~isRunning /\ ActiveLoops(This) = {}
  /\ Len(pixels) >= autosaveEvery
  /\ currentPixel = Len(pixels)
  /\ Len(placed) = Len(pixels)
  /\ storage # Absent

(***************************************************************************)
(* The image loaders.  What the browser does with the source is given:     *)
(* [t |-> "ok", data |-> the pixels of alpha >= 128 read off the canvas],  *)
(* [t |-> "error"] (img.onerror fires) or [t |-> "tainted"] (getImageData  *)
(* throws).  A loader returns [ret, s]: ret is "true" or "false" (the      *)
(* promise resolves to it), "rejected" (the promise rejects) or "pending"  *)
(* (the promise never settles).                                            *)
(***************************************************************************)
LoadViaTag(s, src, name) ==
  IF src.t = "ok"
  THEN [ret |-> "true", s |-> loadImageFromData(s, src.data, name)]
  ELSE [ret |-> "rejected", s |-> s]

loadImageFromBase64(s, src, name) == LoadViaTag(s, src, name)

\* proxy is what proxyUrl(url) leads to: [t |-> "none"] when proxyUrl is
\* the identity it is by default
loadImageFromUrl(s, src, name, tryProxy, proxy) ==
  LET direct == LoadViaTag(s, src, name)
  IN IF direct.ret = "true" THEN direct
     ELSE IF ~tryProxy \/ proxy.t = "none" THEN [ret |-> "false", s |-> s]
     ELSE LET again == LoadViaTag(s, proxy, name)
          IN IF again.ret = "true" THEN again ELSE [ret |-> "false", s |-> s]

\* file: [t |-> "cancel"] (the dialog is dismissed: onchange never fires),
\* [t |-> "nofile"], or what the chosen file decodes to.  resolve() is
\* called only with the value of loadImageFromBase64: when that promise
\* rejects, the rejection is lost in the onload handler.
pickLocalImage(s, file, name) ==
  IF file.t = "cancel" THEN [ret |-> "pending", s |-> s]
  ELSE IF file.t = "nofile" THEN [ret |-> "false", s |-> s]
  ELSE LET r == loadImageFromBase64(s, file, name)
       IN IF r.ret = "rejected" THEN [ret |-> "pending", s |-> s] ELSE r

\* clip: [t |-> "unsupported"] (no clipboard.read), [t |-> "denied"]
\* (read() rejects), [t |-> "noimage"], or what the pasted image decodes to
pasteImageFromClipboard(s, clip, name) ==
  IF clip.t \in {"unsupported", "denied", "noimage"} THEN [ret |-> "false", s |-> s]
  ELSE LET r == loadImageFromBase64(s, clip, name)
       IN IF r.ret = "rejected" THEN [ret |-> "pending", s |-> s] ELSE r

\* the pixels of an image two cells wide, row by row
Decoded(n) ==
  [t |-> "ok",
   data |-> Array([i \in 1..n |->
              RawItem(RawNum(2 * ((i - 1) % 2)), RawNum(2 * ((i - 1) \div 2)),
                      RawHex(IF i % 2 = 1 THEN Red ELSE Blue))])]

Undecoded == {[t |-> "error"], [t |-> "tainted"]}
Sources == {Decoded(n) : n \in 0..MaxLen} \cup Undecoded
NoProxy == [t |-> "none"]

ImageInit == Is(PriorFresh) \/ Is(PriorStopped)

Loaded(r, op, src, tryProxy, proxy) ==
  Do(Called(r.s, op, [src |-> src, tryProxy |-> tryProxy, proxy |-> proxy], r.ret))

ImageFromUrl ==
  /\ lastCall = Watched
  /\ \E src \in Sources, tryProxy \in BOOLEAN, proxy \in Sources \cup {NoProxy} :
       Loaded(loadImageFromUrl(This, src, "New", tryProxy, proxy),
              "loadImageFromUrl", src, tryProxy, proxy)

ImageFromBase64 ==
  /\ lastCall = Watched
  /\ \E src \in Sources :
       Loaded(loadImageFromBase64(This, src, "New"),
              "loadImageFromBase64", src, FALSE, NoProxy)

ImagePicked ==
  /\ lastCall = Watched
  /\ \E file \in Sources \cup {[t |-> "cancel"], [t |-> "nofile"]} :
       Loaded(pickLocalImage(This, file, "New"),
              "pickLocalImage", file, FALSE, NoProxy)

ImagePasted ==
  /\ lastCall = Watched
  /\ \E clip \in Sources \cup {[t |-> "unsupported"], [t |-> "denied"], [t |-> "noimage"]} :
       Loaded(pasteImageFromClipboard(This, clip, "New"),
              "pasteImageFromClipboard", clip, FALSE, NoProxy)

ImageNext ==
  \/ ImageFromUrl
  \/ ImageFromBase64
  \/ ImagePicked
  \/ ImagePasted

SpecImage == ImageInit /\ [][ImageNext]_vars

ImageLoaders ==
  {"loadImageFromUrl", "loadImageFromBase64", "pickLocalImage",
   "pasteImageFromClipboard"}

\* the image source of the call could not be decoded or read
LoadFailed(arg) ==
  /\ arg.src \in Undecoded
  /\ ~arg.tryProxy \/ arg.proxy = NoProxy \/ arg.proxy \in Undecoded

(***************************************************************************)
(* C13.  A failed image load is reported as a failed operation and         *)
(* installs nothing: when the image source cannot be decoded or read, the  *)
(* loader's promise resolves to false or rejects, and the queue, the       *)
(* cursor, the image name and the slot are unchanged.  pickLocalImage and  *)
(* pasteImageFromClipboard install nothing either, but their promise       *)
(* never settles: the caller is told nothing.                              *)
(***************************************************************************)
C13_FailedLoadReported ==
  [][(/\ lastCall = Watched
      /\ lastCall'.op \in ImageLoaders
      /\ LoadFailed(lastCall'.arg))
     => /\ lastCall'.ret \in {"false", "rejected"}
        /\ UNCHANGED <<pixels, currentPixel, imageName, storage>>]_vars

(***************************************************************************)
(* Runs that are stopped: a queue is loaded, start() and stop() are called *)
(* from the console at any moment and the timers fire.  The clicks are     *)
(* observed, and lastCall keeps the last stop(): the cursor and the loops  *)
(* it found.                                                               *)
(***************************************************************************)
HaltInit ==
  \E k \in 1..MaxTasks, found \in EnginePalettes, mode \in Modes,
     cal \in {"none", "xy"} :
    Is([RunSetup(k, found, mode, <<120, 300>>, cal) EXCEPT !.lastCall = Watched])

HaltStart ==
  /\ StartAccepted(This) => HasFree(This)
  /\ Do(start(This))

HaltStop ==
  Do(Called(stop(This), "stop",
            [currentPixel |-> currentPixel, loops |-> loops], Null))

HaltWake == \E l \in ActiveLoops(This) : Do(wake(This, l))

HaltNext ==
  \/ HaltStart
  \/ HaltStop
  \/ HaltWake

SpecHalt == HaltInit /\ [][HaltNext]_vars

\* where on the page the cell of task p lies for cells of W by H pixels
Device(p, W, H) ==
  <<startX + p.x * W + (W \div 2), startY + p.y * H + (H \div 2)>>

(***************************************************************************)
(* C14.  Stop is cooperative: a loop that has selected the swatch of task  *)
(* i and pauses before placing it holds the page position of task i, and   *)
(* when its pause ends it emits that placement and advances the cursor by  *)
(* one before it looks at the run flag again, whether or not stop() was    *)
(* called during the pause.                                                *)
(***************************************************************************)
C14_StopIsCooperative ==
  [][\A l \in 1..MaxLoops :
       /\ (loops'[l].pc = "settle" /\ loops'[l] # loops[l])
          => <<loops'[l].x, loops'[l].y>>
               = Device(pixels[currentPixel + 1], loops'[l].W, loops'[l].H)
       /\ (loops[l].pc = "settle" /\ loops'[l] # loops[l])
          => /\ placed' = Append(placed, <<loops[l].x, loops[l].y>>)
             /\ currentPixel' = currentPixel + 1
             /\ loops'[l].pc = "delay"]_vars

\* stop() was called during the settle pause of the first task; the task
\* has been placed since, and the loop has not yet exited
C14_Witness ==
  /\ lastCall.op = "stop"
  /\ lastCall.arg.currentPixel = 0
  /\ lastCall.arg.loops[1].pc = "settle"
  /\ ~isRunning
  /\ loops[1].pc = "delay"
  /\ currentPixel = 1
  /\ placed = <<Device(pixels[1], lastCall.arg.loops[1].W, lastCall.arg.loops[1].H)>>

Ascending(q) == \A i, j \in 1..Len(q) : i < j => Before(q[i], q[j])

(***************************************************************************)
(* C16.  Whatever loads, runs, stops, saves and restores have happened,    *)
(* the queue in memory and the remaining queue in the slot are strictly    *)
(* ascending by (y, x), so no two of their tasks share a cell; and a       *)
(* restore, by resume() on an empty queue or on a page reload, installs    *)
(* the remaining queue of the slot as it stands, in its order.             *)
(***************************************************************************)
C16_QueueInvariant ==
  /\ [](/\ Ascending(pixels)
        /\ storage.kind = "text" => Ascending(storage.json.remaining))
  /\ [][(((Resume /\ Len(pixels) = 0) \/ Reload) /\ loadStateOK(This))
        => pixels' = storage.json.remaining]_vars

\* the second cell of a two-cell image is the whole queue, as the slot has
\* it: a remainder was saved by a stop and restored
C16_Witness ==
  /\ Len(pixels) = 1
  /\ pixels[1].x = 1 /\ pixels[1].y = 0
  /\ currentPixel = 0
  /\ storage.kind = "text"
  /\ storage.json.remaining = pixels
  /\ storage.json.currentPixel = 1
\* how many tasks the cursor has passed that the slot still lists: what a
\* restore after a crash at this point would attempt again
Lag ==
  IF storage.kind # "text" THEN 0
  ELSE Cardinality({i \in 1..currentPixel :
                      \E j \in 1..Len(storage.json.remaining) :
                        storage.json.remaining[j] = pixels[i]})

C18_PeriodicAutosave ==
  [][(currentPixel' # currentPixel /\ currentPixel' > 0
      /\ currentPixel' % autosaveEvery = 0)
     => /\ storage'.kind = "text"
        /\ storage'.json.remaining = Slice(pixels', currentPixel')]_vars

(***************************************************************************)
(* C20.  Device coordinates: in a run with both cell sizes calibrated to   *)
(* positive integers, every placement is the click at                      *)
(* startX + x*cellW + floor(cellW/2), startY + y*cellH + floor(cellH/2)    *)
(* for the task (x, y) the cursor then moves past.                         *)
(***************************************************************************)
C20_DeviceCoordinates ==
  [][(placed' # placed /\ IsNum(cellW) /\ IsNum(cellH))
     => /\ cellW[1] > 0 /\ cellH[1] > 0
        /\ currentPixel' = currentPixel + 1
        /\ placed' = Append(placed, Device(pixels[currentPixel'], cellW[1], cellH[1]))]_vars

\* a task of the second row and one of the second column have been placed
\* on a grid of cells 2 wide and 3 high, away from the origin
C20_Witness ==
  /\ cellW = Num(2) /\ cellH = Num(3)
  /\ startX = 120 /\ startY = 300
  /\ Len(placed) = MaxTasks
  /\ \E i \in 1..Len(pixels) :
       pixels[i].y > 0 /\ placed[i] = <<120 + 2 * pixels[i].x + 1, 300 + 3 * pixels[i].y + 1>>
  /\ \E i \in 1..Len(pixels) : pixels[i].x > 0 /\ placed[i][1] = 120 + 2 * pixels[i].x + 1
\* a cell dimension as the specification has it: 1 when not calibrated
OneIfUnset(c) == IF IsNum(c) THEN c[1] ELSE 1

(***************************************************************************)
(* C21, as the specification words it: a cell dimension that is not        *)
(* calibrated counts as 1 in the mapping, the height whatever the width    *)
(* is.  start() takes `cellH > 0 ? cellH : W`: a height that is not set    *)
(* follows the width.                                                      *)
(***************************************************************************)
C21_UncalibratedIsOne ==
  [][placed' # placed
     => placed' = Append(placed, Device(pixels[currentPixel'],
                                        OneIfUnset(cellW), OneIfUnset(cellH)))]_vars

(***************************************************************************)
(* C21.  Uncalibrated default: a cell width that is not calibrated is      *)
(* taken as 1, and a cell height that is not calibrated is taken as the    *)
(* effective cell width; when neither is calibrated the placements are at  *)
(* (startX + x, startY + y).                                               *)
(***************************************************************************)
C21_UncalibratedDefault ==
  [][(placed' # placed /\ (cellW = Null \/ cellH = Null))
     => /\ placed' = Append(placed,
                            Device(pixels[currentPixel'], OneIfUnset(cellW),
                                   IF IsNum(cellH) THEN cellH[1]
                                   ELSE OneIfUnset(cellW)))
        /\ (cellW = Null /\ cellH = Null)
           => placed' = Append(placed, <<startX + pixels[currentPixel'].x,
                                         startY + pixels[currentPixel'].y>>)]_vars

\* only the width is calibrated, to 2: a task of the second row has been
\* placed two pixels further down per row
C21_Witness ==
  /\ cellW = Num(2) /\ cellH = Null
  /\ startY = 300
  /\ \E i \in 1..Len(placed) :
       pixels[i].y > 0 /\ placed[i][2] = 300 + 2 * pixels[i].y + 1
\* what the resolution of the task at the cursor returns in this state:
\* "SKIP", "true" (a swatch is selected), "false" (placed with the colour
\* that is active), or "off" when auto mode is disabled
Resolution ==
  IF ~useAutoPalette \/ colorPalette = <<>> THEN "off"
  ELSE selectColorSmart(This, pixels[currentPixel + 1].color).ret

(***************************************************************************)
(* C22.  Skip step: when the resolution of the task at the cursor returns  *)
(* Skip, the step of the loop advances the cursor by exactly one and       *)
(* emits neither a swatch selection nor a placement.                       *)
(***************************************************************************)
C22_SkipStep ==
  [][(currentPixel' # currentPixel /\ Resolution = "SKIP")
     => /\ currentPixel' = currentPixel + 1
        /\ placed' = placed
        /\ selects' = selects]_vars

\* the first task, red beside a locked red swatch, was skipped, and the
\* second, blue, has been placed
C22_Witness ==
  /\ lockedColorMode = "skip"
  /\ Len(colorPalette) = 2
  /\ currentPixel = 2
  /\ Len(placed) = 1
  /\ Len(selects) = 1

(***************************************************************************)
(* C23.  Placement whatever the resolution: every step that moves the      *)
(* cursor past a task whose resolution is not Skip (a swatch was selected, *)
(* the choice was left to the user, or auto mode is off) emits exactly one *)
(* placement, and no placement is emitted without the cursor moving past   *)
(* one task.                                                               *)
(***************************************************************************)
C23_PlacementUnlessSkip ==
  [][/\ (currentPixel' # currentPixel /\ Resolution # "SKIP")
        => /\ currentPixel' = currentPixel + 1
           /\ Len(placed') = Len(placed) + 1
     /\ placed' # placed
        => /\ currentPixel' = currentPixel + 1
           /\ Len(placed') = Len(placed) + 1]_vars

\* mode manual beside a locked red swatch: the red task was placed without
\* a selection, and so were the tasks after it
C23_Witness ==
  /\ lockedColorMode = "manual"
  /\ Len(colorPalette) = 2
  /\ ~useAutoPalette
  /\ selects = <<>>
  /\ Len(placed) = currentPixel
  /\ currentPixel >= 2

(***************************************************************************)
(* C24.  Re-entrant start is a no-op: start() called while the run flag is *)
(* true leaves the queue, the cursor, the run flag, the auto-mode flag,    *)
(* the cell size and the slot as they were, starts no loop and emits no    *)
(* swatch selection and no placement.                                      *)
(***************************************************************************)
C24_ReentrantStart ==
  [][(lastCall'.op = "start" /\ isRunning)
     => UNCHANGED <<pixels, currentPixel, isRunning, useAutoPalette, cellW, cellH,
                    storage, loops, placed, selects>>]_vars

\* start() was called while the one loop of the session slept after its
\* second placement
C24_Witness ==
  /\ lastCall.op = "start"
  /\ isRunning
  /\ Cardinality(ActiveLoops(This)) = 1
  /\ Len(placed) = 2
  /\ storage = Absent

\* resume() finds nothing to run: the queue in memory is empty and the slot
\* gives no task
NothingToResume ==
  Len(pixels) = 0 /\ (~loadStateOK(This) \/ storage.json.remaining = <<>>)

C26_NearestEntry ==
  \A target \in Targets \cup {Black}, only \in BOOLEAN :
    LET pal == colorPalette
        among == {j \in Coloured(pal) : only => ~pal[j].locked}
        i == findClosestEntry(pal, target, only)
    IN IF among = {} THEN i = 0
       ELSE /\ i \in among
            /\ \A j \in among :
                 /\ Away(pal[i], target) <= Away(pal[j], target)
                 /\ j < i => Away(pal[j], target) > Away(pal[i], target)

\* two red swatches, the first locked: the plain lookup of red returns the
\* first, the unlocked lookup the second, which mode map has clicked
C26_Witness ==
  /\ Resolved
  /\ lastCall.arg = Hex6(Red)
  /\ colorPalette = <<RedSwatch(TRUE), RedSwatch(FALSE)>>
  /\ lockedColorMode = "map"
  /\ findClosestEntry(colorPalette, lastCall.arg, FALSE) = 1
  /\ findClosestEntry(colorPalette, lastCall.arg, TRUE) = 2
  /\ selects = <<colorPalette[2]>>

(***************************************************************************)
(* A run beside a palette that changes: a queue is loaded, start() is      *)
(* called, the timers fire, and from the console the palette is rescanned  *)
(* (the picker is opened or closed in between) and manual mode is switched *)
(* on and off.  The calls and the clicks are observed.                     *)
(***************************************************************************)
PaletteInit ==
  \E k \in 1..MaxTasks, found \in EnginePalettes, mode \in Modes :
    Is([RunSetup(k, found, mode, <<0, 0>>, "none") EXCEPT !.lastCall = Watched])

PaletteStart == Do(Called(start(This), "start", Null, Null))

PaletteWake ==
  \E l \in ActiveLoops(This) : Do(Called(wake(This, l), "wake", l, Null))

PaletteRefresh ==
  \E found \in EnginePalettes :
    Do(Called(refreshPalette(This, found), "refreshPalette", found, Null))

PaletteSetManual ==
  \E on \in BOOLEAN :
    Do(Called(setManualColorMode(This, on), "setManualColorMode", on, Null))

PaletteNext ==
  \/ PaletteStart
  \/ PaletteWake
  \/ PaletteRefresh
  \/ PaletteSetManual

SpecPalette == PaletteInit /\ [][PaletteNext]_vars

\* the step is one of the loop that resolves the task at the cursor and
\* moves past it: a start() or a timer, but not the end of a settle pause,
\* whose task was resolved before the pause
ResolvesAndAdvances ==
  /\ lastCall'.op \in {"start", "wake"}
  /\ currentPixel' = currentPixel + 1
  /\ \A l \in 1..MaxLoops : loops[l].pc # "settle"

(***************************************************************************)
(* C27.  Empty-palette downgrade: whenever the loop resolves a task beside *)
(* an empty snapshot, at the start or after a rescan during the run found  *)
(* nothing, auto mode is off afterwards.                                   *)
(***************************************************************************)
C27_EmptyPaletteDowngrade ==
  [][(ResolvesAndAdvances /\ colorPalette = <<>>) => ~useAutoPalette']_vars

\* the nearest swatch of the task at the cursor is locked and the mode
\* leaves no swatch to select
LockedNoChoice ==
  LET a == Nearest(colorPalette, pixels[currentPixel + 1].color)
      b == NearestUnlocked(colorPalette, pixels[currentPixel + 1].color)
  IN /\ a # 0
     /\ colorPalette[a].locked
     /\ \/ lockedColorMode = "manual"
        \/ lockedColorMode = "map" /\ b = 0

(***************************************************************************)
(* C28.  Locked-colour downgrade: when the loop, in auto mode, resolves a  *)
(* task whose nearest swatch is locked, in mode manual or in mode map with *)
(* no unlocked swatch, the task is placed without a selection and auto     *)
(* mode is off; and while auto mode is off every step leaves it off and    *)
(* selects no swatch, whatever a rescan finds, except a call of            *)
(* setManualColorMode.                                                     *)
(***************************************************************************)
C28_LockedDowngrade ==
  [][/\ (ResolvesAndAdvances /\ useAutoPalette /\ LockedNoChoice)
        => /\ ~useAutoPalette'
           /\ selects' = selects
           /\ Len(placed') = Len(placed) + 1
     /\ (~useAutoPalette /\ lastCall'.op # "setManualColorMode")
        => /\ ~useAutoPalette'
           /\ selects' = selects]_vars

\* mode manual: three tasks were placed without a selection and auto mode
\* is off, although the last rescan found an unlocked swatch of the colour
\* of the second task
C28_Witness ==
  /\ lockedColorMode = "manual"
  /\ ~useAutoPalette
  /\ lastCall.op = "wake"
  /\ colorPalette = <<RedSwatch(TRUE), BlueSwatch(FALSE)>>
  /\ Len(placed) = 3
  /\ currentPixel = 3
  /\ selects = <<>>

(***************************************************************************)
(* Colour conversion: on a fresh instance rgbToHex is called once from the *)
(* console on a string of up to three digit groups, or loadImageFromData   *)
(* once on one item whose colour is rgb(r,g,b); the channels are in and    *)
(* out of 0..255.                                                          *)
(***************************************************************************)
HexInputs ==
  LET channels == {0, 1, 255, 256, 300, 4096}
  IN UNION {[1..n -> channels] : n \in 0..3}

HexConvert ==
  /\ lastCall = Watched
  /\ \E m \in HexInputs : Do(Called(This, "rgbToHex", m, rgbToHex(m)))

HexLoad ==
  /\ lastCall = Watched
  /\ \E m \in HexInputs :
       /\ Len(m) = 3
       /\ Do(loadImageFromData(This, Array(<<RawItem(RawNum(0), RawNum(0), RawRgb(m))>>),
                               "New"))

HexNext ==
  \/ HexConvert
  \/ HexLoad

SpecHex == Is(PriorFresh) /\ [][HexNext]_vars

(***************************************************************************)
(* C29.  toHex packing: for integer channels rgbToHex returns six hex      *)
(* digits, two per channel, a channel outside 0..255 or missing counting   *)
(* as 00; and every colour loadImageFromData stores from an rgb(r,g,b)     *)
(* string has six digits, a 24-bit value.                                  *)
(***************************************************************************)
C29_HexPacking ==
  /\ lastCall.op = "rgbToHex"
     => LET m == lastCall.arg
            ch(i) == IF i <= Len(m) /\ m[i] \in 0..255 THEN m[i] ELSE 0
        IN lastCall.ret = Hex6(ch(1) * 65536 + ch(2) * 256 + ch(3))
  /\ (lastCall.op = "loadImageFromData" /\ lastCall.ret = TRUE)
     => \A i \in 1..Len(pixels) :
          pixels[i].color.n = 6 /\ pixels[i].color.v \in 0..16777215

(***************************************************************************)
(* C30.  Cursor bounds: whatever the interleaving of start, stop, resume,  *)
(* loads and restores with the pauses of the loop, the cursor stays within *)
(* 0 and the length of the queue.                                          *)
(***************************************************************************)
C30_CursorBounds == 0 <= currentPixel /\ currentPixel <= Len(pixels)

(***************************************************************************)
(* C31.  Exactly-once attempts across stop and start: however stop() and   *)
(* start() interleave with the pauses of the loop, the placements are      *)
(* those of tasks the cursor has passed, each task at most once and in     *)
(* queue order: placement number n is for a task at or after position n,   *)
(* and a later placement is for a later task.                              *)
(***************************************************************************)
C31_ExactlyOnce ==
  \E at \in [1..Len(placed) -> 1..Len(pixels)] :
    /\ \A n \in 1..Len(placed) :
         /\ at[n] <= currentPixel
         /\ placed[n] = Device(pixels[at[n]], OneIfUnset(cellW),
                               IF IsNum(cellH) THEN cellH[1] ELSE OneIfUnset(cellW))
    /\ \A n, m \in 1..Len(placed) : n < m => at[n] < at[m]

(***************************************************************************)
(* C33.  Colour integrity of a step: no swatch is selected while a loop    *)
(* is in the settle pause between the selection for its task and the       *)
(* placement of that task.                                                 *)
(***************************************************************************)
C33_ColourIntegrity ==
  [][selects' # selects => \A l \in 1..MaxLoops : loops[l].pc # "settle"]_vars

(***************************************************************************)
(* C34.  Bounded effect of stop: from a stop() to the next start() that is *)
(* accepted the cursor advances by at most one.  In these runs the run     *)
(* flag is false with the cursor short of the end only when no start() was *)
(* accepted since the last stop(), whose cursor lastCall holds.            *)
(***************************************************************************)
C34_BoundedStop ==
  (lastCall.op = "stop" /\ ~isRunning /\ currentPixel < Len(pixels))
  => currentPixel <= lastCall.arg.currentPixel + 1

(***************************************************************************)
(* C32.  Load during a run: when loadImageFromData installs another queue  *)
(* while a loop is suspended in its settle pause, the placement that loop  *)
(* is about to make is the one of the first task of the new queue, the     *)
(* task at the cursor.                                                     *)
(***************************************************************************)
C32_LoadDuringRun ==
  [][(Load /\ pixels' # pixels)
     => \A l \in 1..MaxLoops :
          loops'[l].pc = "settle"
          => <<loops'[l].x, loops'[l].y>>
               = Device(pixels'[1], loops'[l].W, loops'[l].H)]_vars

(***************************************************************************)
(* C36.  A cleared checkpoint stays cleared: once a run has finished and   *)
(* removed the slot, a step that leaves the queue and the cursor as they   *)
(* are (a stop(), a start(), a change of a setting: anything but a load)   *)
(* leaves the slot absent.                                                 *)
(***************************************************************************)
C36_ClearedStaysCleared ==
  [][(Finished /\ Len(pixels) > 0 /\ pixels' = pixels /\ currentPixel' = currentPixel)
     => storage' = Absent]_vars

(***************************************************************************)
(* Replacement runs: on an instance that is fresh or holds the image       *)
(* "Old" stopped midway, images of up to MaxStored cells are loaded from   *)
(* the console, the image of the engine runs or its lower rows only, and   *)
(* start(), stop() and the timers act in between.                          *)
(***************************************************************************)
ReplaceLoad ==
  \E n \in 1..MaxStored, d \in {0, 2} :
    Do(loadImageFromData(This, Array([i \in 1..n |-> ImageItem(i + d)]), "New"))

ReplaceNext ==
  \/ ReplaceLoad
  \/ RestoreStart
  \/ RestoreStop
  \/ RestoreWake

SpecReplace == LoadInit /\ [][ReplaceNext]_vars

(***************************************************************************)
(* C35.  The checkpoint matches the loaded queue: when loadImageFromData   *)
(* has returned true, for a queue of any length, the slot is absent or     *)
(* holds a record whose remaining tasks are all tasks of the queue just    *)
(* loaded.                                                                 *)
(***************************************************************************)
C35_CheckpointMatches ==
  (lastCall.op = "loadImageFromData" /\ lastCall.ret)
  => \/ storage = Absent
     \/ /\ storage.kind = "text"
        /\ \A i \in 1..Len(storage.json.remaining) :
             \E k \in 1..Len(pixels) : pixels[k] = storage.json.remaining[i]

(***************************************************************************)
(* Sessions over a reload: a first session is run, stopped and started     *)
(* from the console; when it is at rest the page is reloaded and init()    *)
(* restores the slot in a new instance beside the same palette, which is   *)
(* then resumed and left to its timers.  From the reload on lastCall keeps *)
(* the first session: its queue, the cursor it had reached, its origin,    *)
(* cell size, palette and locked-colour mode.                              *)
(***************************************************************************)
Reopen ==
  /\ lastCall.op # "reopen"
  /\ ~isRunning
  /\ ActiveLoops(This) = {}
  /\ Do([init(Constructed(storage, Watched), TRUE, colorPalette) EXCEPT
           !.lastCall = [op |-> "reopen",
                         arg |-> [pixels |-> pixels, currentPixel |-> currentPixel,
                                  startX |-> startX, startY |-> startY,
                                  cellW |-> cellW, cellH |-> cellH,
                                  colorPalette |-> colorPalette,
                                  useAutoPalette |-> useAutoPalette,
                                  lockedColorMode |-> lockedColorMode],
                         ret |-> loadStateOK(This)]])

ResumeNext ==
  \/ lastCall.op # "reopen" /\ HaltStart
  \/ lastCall.op # "reopen" /\ HaltStop
  \/ lastCall.op # "reopen" /\ HaltWake
  \/ Reopen
  \/ /\ lastCall.op = "reopen"
     /\ ResumeStarts(This) => HasFree(This)
     /\ Do(resume(This))
  \/ lastCall.op = "reopen" /\ HaltWake

SpecResume == HaltInit /\ [][ResumeNext]_vars

\* the tasks the first session had left, as far as a run is to place them:
\* all of them unless it resolves in mode skip, where a task whose nearest
\* swatch is locked is passed over
Uninterrupted(a) ==
  LET mine == [This EXCEPT !.colorPalette = a.colorPalette,
                           !.useAutoPalette = a.useAutoPalette,
                           !.lockedColorMode = a.lockedColorMode]
      Placed(p) == \/ ~a.useAutoPalette
                   \/ a.colorPalette = <<>>
                   \/ selectColorSmart(mine, p.color).ret # "SKIP"
      W == OneIfUnset(a.cellW)
      H == IF IsNum(a.cellH) THEN a.cellH[1] ELSE W
      rest == SelectSeq(Slice(a.pixels, a.currentPixel), Placed)
  IN [n \in 1..Len(rest) |->
        <<a.startX + rest[n].x * W + (W \div 2),
          a.startY + rest[n].y * H + (H \div 2)>>]

\* the resumed run has come to its end
Resumed ==
  /\ lastCall.op = "reopen"
  /\ ~isRunning
  /\ ActiveLoops(This) = {}
  /\ currentPixel = Len(pixels)

(***************************************************************************)
(* C37.  Resume equivalence across sessions: for a queue under the cap, a  *)
(* run stopped after j tasks, restored in a new instance and resumed to    *)
(* its end, has emitted the placements the uninterrupted run would have    *)
(* emitted for the tasks from j on: the same device coordinates in the     *)
(* same order, and none for a task that run passes over.                   *)
(***************************************************************************)
C37_ResumeEquivalence ==
  (Resumed /\ Len(lastCall.arg.pixels) <= largeSaveCap)
  => placed = Uninterrupted(lastCall.arg)

(***************************************************************************)
(* C37, as the code has it: the locked-colour mode is not part of the      *)
(* checkpoint and the new instance resolves in mode map.  When the first   *)
(* session did not resolve in mode skip, the placements of the resumed run *)
(* are at every moment the first of those the uninterrupted run emits for  *)
(* the tasks from j on, and all of them at its end.                        *)
(***************************************************************************)
C37_ResumeEquivalenceSameMode ==
  (/\ lastCall.op = "reopen"
   /\ Len(lastCall.arg.pixels) <= largeSaveCap
   /\ lastCall.arg.lockedColorMode # "skip")
  => LET all == Uninterrupted(lastCall.arg)
     IN /\ Len(placed) <= Len(all)
        /\ placed = SubSeq(all, 1, Len(placed))
        /\ Resumed => placed = all

\* two tasks of three were left and the resumed run placed them in cells
\* of 2 by 3, beside a locked swatch
C37_Witness ==
  /\ Resumed
  /\ lastCall.arg.lockedColorMode = "manual"
  /\ lastCall.arg.currentPixel = 1
  /\ Len(lastCall.arg.pixels) = 3
  /\ lastCall.arg.cellW = Num(2)
  /\ lastCall.arg.cellH = Num(3)
  /\ lastCall.arg.colorPalette # <<>>
  /\ Len(placed) = 2

(***************************************************************************)
(* C38.  No locked or stale swatch is selected: in every mode and beside   *)
(* every palette, a step that clicks a swatch clicks one, and the entry it *)
(* clicks is unlocked and is an entry of the snapshot the instance holds   *)
(* at that step, whatever rescans came between the tasks of the run.       *)
(***************************************************************************)
C38_NoLockedOrStale ==
  [][selects' # selects
     => /\ Len(selects') = Len(selects) + 1
        /\ SubSeq(selects', 1, Len(selects)) = selects
        /\ colorPalette' = colorPalette
        /\ LET e == selects'[Len(selects')]
           IN /\ ~e.locked
              /\ \E i \in 1..Len(colorPalette) : colorPalette[i] = e]_vars

\* mode map, auto mode on: of three tasks placed the second went without a
\* selection, the palette being empty then, and the third was resolved on
\* the snapshot of a later rescan
C38_Witness ==
  /\ lockedColorMode = "map"
  /\ useAutoPalette
  /\ lastCall.op = "wake"
  /\ colorPalette = <<RedSwatch(TRUE), BlueSwatch(FALSE)>>
  /\ currentPixel = 3
  /\ Len(placed) = 3
  /\ selects = <<BlueSwatch(FALSE), BlueSwatch(FALSE)>>
====
